---- MODULE Spec2Model ----
\* Model of src/ocl-addon/cl_top_host.c: the host program that drives the
\* Add-One accelerator through the PCI BAR register interface.
\*
\* A 32-bit word (uint32_t) is the record [hi, lo] of its two 16-bit halves,
\* so that arithmetic modulo 2^32 is computed with its carries and stays
\* inside the integers the model checker can represent.
EXTENDS Integers, Sequences, FiniteSets, TLC

\* ---------------------------------------------------------------- constants
INPUT_BASE_ADDR == 0
OUTPUT_BASE_ADDR == 32
CONTROL_REG_ADDR == 64
STATUS_REG_ADDR == 68
START_BIT == 1
DONE_BIT == 1
NUM_REGISTERS == 8
max_polls == 1000
PCI_BAR_HANDLE_INIT == -1
FPGA_STATUS_LOADED == "LOADED"

\* ------------------------------------------------------------------- bounds
\* The simulated accelerator returns at most MaxBad non-incremented outputs.
MaxBad == 1

Half == 2^16
Slots == 0 .. (NUM_REGISTERS - 1)
\* Failure codes of the SDK calls: an errno-style negative code and a
\* positive FPGA_ERR-style code; the program only tests rc != 0.
ErrCodes == {-1, 5}
\* The handle a successful fpga_pci_attach stores: the first entry of the
\* SDK's table of attached BARs.
AttachHandles == {0}
Rcs == {0} \cup ErrCodes
ImageStatuses == {"LOADED", "NOT_PROGRAMMED", "CLEARED", "BUSY", "UNKNOWN"}

\* ---------------------------------------------------------- 32-bit words
W(h, l) == [hi |-> h, lo |-> l]
Zero32 == W(0, 0)

\* uint32_t a + n, n a small non-negative int: wrapping 32-bit addition.
AddU32(a, n) ==
    LET s == a.lo + n
    IN  W((a.hi + (s \div Half)) % Half, s % Half)

\* bitwise AND of two 16-bit values
RECURSIVE And16(_, _, _)
And16(a, b, bits) ==
    IF bits = 0 THEN 0
    ELSE (IF a % 2 = 1 /\ b % 2 = 1 THEN 1 ELSE 0)
         + 2 * And16(a \div 2, b \div 2, bits - 1)

\* status & mask, mask a 16-bit constant (upper half of the mask is zero)
And32(a, mask) == W(0, And16(a.lo, mask, 16))

\* !(status & DONE_BIT) is false, i.e. the done bit is set
DoneBitSet(s) == And32(s, DONE_BIT) # Zero32

\* ---------------------------------------------------------------- state
VARIABLES
    pc,              \* control location of the single thread
    main_rc,         \* rc of main
    info_status,     \* info.status filled by fpga_mgmt_describe_local_image
    ppe_rc,          \* rc of peek_poke_example
    pci_bar_handle,  \* pci_bar_handle of peek_poke_example
    rc,              \* rc of test_add_one_operation
    i,               \* loop index of the current for loop
    test_data,       \* test_data[NUM_REGISTERS]
    output_data,     \* output_data[NUM_REGISTERS]
    status,          \* status
    poll_count,      \* poll_count
    correct_count,   \* correct_count
    report,          \* the rows printed by step 10: expected and PASS/FAIL
    exit_code,       \* exit status of the process, -1 while running
    \* observation of the calls made to the SDK
    init_ret,        \* what fpga_mgmt_init returned (NoRet before)
    afi_ret,         \* what check_afi_ready returned (NoRet before)
    describe_ret,    \* what fpga_mgmt_describe_local_image returned
    attach_ret,      \* what fpga_pci_attach returned
    cycle_ret,       \* what test_add_one_operation returned
    detach_ret,      \* what fpga_pci_detach returned
    ppe_ret,         \* what peek_poke_example returned
    outcome,         \* the return statement test_add_one_operation took
    describeCalls,   \* calls of fpga_mgmt_describe_local_image
    attachCalls,     \* calls of fpga_pci_attach
    detachCalls,     \* calls of fpga_pci_detach
    attached,        \* TRUE between a successful attach and detach
    callOrder,       \* the SDK calls other than peek and poke, in order
    lastOp,          \* the last fpga_pci_peek / fpga_pci_poke
    regOps,          \* number of fpga_pci_peek and fpga_pci_poke calls
    ioErr,           \* code of the first failed register operation, else 0
    startWrites,     \* pokes of START_BIT to the Control register
    ctrlWrites,      \* pokes to the Control register
    pollReads,       \* peeks of the Status register inside the loop
    outReads,        \* peeks of Output-zone slots
    rbGood,          \* slots whose readback returned the word written
    rbBad,           \* slots whose readback returned another word
    opsAfterErr,     \* register operations issued after one had failed
    opsUnattached,   \* register operations issued with no session attached
    opLog,           \* the register operations in the order issued
    timeoutPolls     \* the count printed by the timeout message, else -1

progVars == <<main_rc, info_status, ppe_rc, pci_bar_handle, exit_code>>
cycleVars == <<rc, i, test_data, output_data, status, poll_count,
               correct_count, report>>
callVars == <<init_ret, afi_ret, describe_ret, attach_ret, cycle_ret,
              detach_ret, ppe_ret, outcome, describeCalls, attachCalls,
              detachCalls, attached, callOrder>>
opVars == <<lastOp, regOps, ioErr, startWrites, ctrlWrites, pollReads,
            outReads, rbGood, rbBad, opsAfterErr, opsUnattached, opLog,
            timeoutPolls>>
vars == <<pc, progVars, cycleVars, callVars, opVars>>

\* What a call returned: NoRet before it returns, Ret(v) once it returned v.
NoRet == <<>>
Ret(v) == <<v>>

NoOp == [kind |-> "none", addr |-> 0, data |-> Zero32, rc |-> 0]
NoReport == [s \in Slots |-> [expected |-> Zero32, pass |-> FALSE]]

Init ==
    /\ pc = "main_init"
    /\ main_rc = 0
    /\ info_status = "none"
    /\ ppe_rc = 0
    /\ pci_bar_handle = PCI_BAR_HANDLE_INIT
    /\ rc = 0
    /\ i = 0
    /\ test_data = [s \in Slots |-> Zero32]
    /\ output_data = [s \in Slots |-> Zero32]
    /\ status = Zero32
    /\ poll_count = 0
    /\ correct_count = 0
    /\ report = NoReport
    /\ exit_code = -1
    /\ init_ret = NoRet
    /\ afi_ret = NoRet
    /\ describe_ret = NoRet
    /\ attach_ret = NoRet
    /\ cycle_ret = NoRet
    /\ detach_ret = NoRet
    /\ ppe_ret = NoRet
    /\ outcome = "none"
    /\ describeCalls = 0
    /\ attachCalls = 0
    /\ detachCalls = 0
    /\ attached = FALSE
    /\ callOrder = <<>>
    /\ lastOp = NoOp
    /\ regOps = 0
    /\ ioErr = 0
    /\ startWrites = 0
    /\ ctrlWrites = 0
    /\ pollReads = 0
    /\ outReads = 0
    /\ rbGood = {}
    /\ rbBad = {}
    /\ opsAfterErr = 0
    /\ opsUnattached = 0
    /\ opLog = <<>>
    /\ timeoutPolls = -1

\* The exit status the parent sees: the low 8 bits of main's return value.
ExitStatus(r) == r % 256

\* ------------------------------------------------------------------ main
\* main, lines 67-70: after the library is initialised the next call is
\* check_afi_ready.
AfterInitAttach == "ppe_attach"
AfterInit == "main_check"

\* main, lines 60-67: fpga_mgmt_init; on failure return 1.
MgmtInit ==
    /\ pc = "main_init"
    /\ \E r \in Rcs :
        /\ init_ret' = Ret(r)
        /\ callOrder' = Append(callOrder, "fpga_mgmt_init")
        /\ main_rc' = r
        /\ IF r # 0
           THEN /\ exit_code' = ExitStatus(1)
                /\ pc' = "exited"
           ELSE /\ exit_code' = exit_code
                /\ pc' = AfterInit
    /\ UNCHANGED <<info_status, ppe_rc, pci_bar_handle, cycleVars, opVars,
                   afi_ret, describe_ret, attach_ret, cycle_ret, detach_ret,
                   ppe_ret, outcome, describeCalls, attachCalls, detachCalls,
                   attached>>

\* main, lines 87-89 (cleanup: return rc): the process ends with main's rc.
\* Both the goto of line 73 or 82 and the fall-through of line 85 come here.
MainReturn(v) ==
    /\ main_rc' = v
    /\ exit_code' = ExitStatus(v)
    /\ pc' = "exited"

\* info.status != FPGA_STATUS_LOADED is false, line 106
ImageReadyNotBlank(st) == st # "NOT_PROGRAMMED"
ImageReady(st) == st = FPGA_STATUS_LOADED

\* what check_afi_ready returns for a describe result r and image status st
AfiResult(r, st) ==
    IF r # 0 THEN r
    ELSE IF ~ImageReady(st) THEN 1
    ELSE 0

\* main, lines 69-76, with the call of check_afi_ready (lines 92-118):
\* one describe query, then goto cleanup on a nonzero result.
CheckAfiReady ==
    /\ pc = "main_check"
    /\ \E r \in Rcs, st \in ImageStatuses :
        /\ describeCalls' = describeCalls + 1
        /\ describe_ret' = Ret(r)
        /\ callOrder' = Append(callOrder, "fpga_mgmt_describe_local_image")
        /\ info_status' = IF r = 0 THEN st ELSE info_status
        /\ afi_ret' = Ret(AfiResult(r, st))
        /\ IF AfiResult(r, st) # 0
           THEN MainReturn(AfiResult(r, st))
           ELSE /\ main_rc' = AfiResult(r, st)
                /\ pc' = "ppe_attach"
                /\ exit_code' = exit_code
    /\ UNCHANGED <<ppe_rc, pci_bar_handle, cycleVars, opVars,
                   init_ret, attach_ret, cycle_ret, detach_ret, ppe_ret,
                   outcome, attachCalls, detachCalls, attached>>

\* ------------------------------------------------------ peek_poke_example
\* peek_poke_example returns v to main: line 79 stores it in rc, and lines
\* 80-89 return that rc from main on either branch.
PpeReturn(v) ==
    /\ ppe_ret' = Ret(v)
    /\ MainReturn(v)

\* rc != 0 after fpga_pci_attach, line 128
AttachFailedPositive(r) == r > 0
AttachFailed(r) == r # 0

\* lines 126-133: attach; on failure return rc without detaching.
Attach ==
    /\ pc = "ppe_attach"
    /\ \E r \in Rcs, h \in AttachHandles :
        /\ attachCalls' = attachCalls + 1
        /\ attach_ret' = Ret(r)
        /\ callOrder' = Append(callOrder, "fpga_pci_attach")
        /\ ppe_rc' = r
        /\ pci_bar_handle' = IF r = 0 THEN h ELSE pci_bar_handle
        /\ attached' = (r = 0)
        /\ IF AttachFailed(r)
           THEN PpeReturn(r)
           ELSE /\ pc' = "t_init"
                /\ UNCHANGED <<ppe_ret, main_rc, exit_code>>
    /\ UNCHANGED <<info_status, cycleVars, opVars, init_ret,
                   afi_ret, describe_ret, cycle_ret, detach_ret, outcome,
                   describeCalls, detachCalls>>

\* pci_bar_handle >= 0, line 144
HandleValidPositive(h) == h > 0
HandleValid(h) == h >= 0

\* lines 142-153: cleanup. The result of fpga_pci_detach is assigned to rc,
\* and rc is what the function returns.
Detach ==
    /\ pc = "ppe_cleanup"
    /\ IF HandleValid(pci_bar_handle)
       THEN \E r \in Rcs :
            /\ detachCalls' = detachCalls + 1
            /\ detach_ret' = Ret(r)
            /\ callOrder' = Append(callOrder, "fpga_pci_detach")
            /\ attached' = FALSE
            /\ ppe_rc' = r
            /\ PpeReturn(r)
       ELSE /\ PpeReturn(ppe_rc)
            /\ UNCHANGED <<detachCalls, detach_ret, attached, ppe_rc,
                           callOrder>>
    /\ UNCHANGED <<info_status, pci_bar_handle, cycleVars, opVars,
                   init_ret, afi_ret, describe_ret, attach_ret, cycle_ret,
                   outcome, describeCalls, attachCalls>>

\* ------------------------------------------------- the register interface
\* What the device may answer. Status words: idle, done, and a word with
\* another bit set and the done bit clear.
StatusVals == {W(0, 0), W(0, 1), W(0, 2)}
\* An input readback: the word written, or the word with its upper half lost.
ReadbackVals(w) == {w, W(0, w.lo)}
\* The word the accelerator computes for an input word.
DeviceSum(w) == IF w.lo = Half - 1 THEN W((w.hi + 1) % Half, 0)
                ELSE W(w.hi, w.lo + 1)
\* number of slots below k whose output is not the device's sum
BadOutputs(inp, out, k) ==
    Cardinality({s \in Slots : s < k /\ out[s] # DeviceSum(inp[s])})
\* An output read of slot k: the sum, or the input word not incremented.
OutputVals(inp, out, k) ==
    {DeviceSum(inp[k])} \cup
    (IF BadOutputs(inp, out, k) < MaxBad THEN {inp[k]} ELSE {})

\* the variables no step of test_add_one_operation touches
testFrame == <<main_rc, info_status, pci_bar_handle, exit_code, init_ret,
               afi_ret, describe_ret, attach_ret, detach_ret, ppe_ret,
               describeCalls, attachCalls, detachCalls, attached, callOrder>>

\* rc != 0 after a register operation
IoFailedPositive(r) == r > 0
IoFailed(r) == r # 0

\* The log of register operations. Each entry is one call, except that
\* consecutive reads of one address are one entry counting them (n), with
\* the result of the last (rc) and whether a read followed one that had
\* shown bit 0 set (afterDone). data is the word written by a poke.
LogEntry(kind, addr, val, r) ==
    [kind |-> kind, addr |-> addr,
     data |-> IF kind = "poke" THEN val ELSE Zero32,
     n |-> 1, rc |-> r, afterDone |-> FALSE]

Logged(log, last, kind, addr, val, r) ==
    IF /\ kind = "peek"
       /\ Len(log) > 0
       /\ log[Len(log)].kind = "peek"
       /\ log[Len(log)].addr = addr
    THEN [log EXCEPT ![Len(log)] =
            [@ EXCEPT !.n = @ + 1, !.rc = r,
                      !.afterDone = @ \/ (last.data.lo % 2 = 1)]]
    ELSE Append(log, LogEntry(kind, addr, val, r))

\* fpga_pci_poke(pci_bar_handle, addr, val) returning r
Poke(addr, val, r) ==
    /\ lastOp' = [kind |-> "poke", addr |-> addr, data |-> val, rc |-> r]
    /\ opLog' = Logged(opLog, lastOp, "poke", addr, val, r)
    /\ opsUnattached' = IF attached THEN opsUnattached ELSE opsUnattached + 1
    /\ regOps' = regOps + 1
    /\ ioErr' = IF ioErr = 0 THEN r ELSE ioErr
    /\ opsAfterErr' = IF ioErr # 0 THEN opsAfterErr + 1 ELSE opsAfterErr
    /\ rc' = r
    /\ ctrlWrites' = IF addr = CONTROL_REG_ADDR THEN ctrlWrites + 1
                     ELSE ctrlWrites
    /\ startWrites' = IF addr = CONTROL_REG_ADDR /\ val = W(0, START_BIT)
                      THEN startWrites + 1 ELSE startWrites
    /\ UNCHANGED <<pollReads, outReads>>

\* fpga_pci_peek(pci_bar_handle, addr, &x) returning r and, on success, val
Peek(addr, val, r, inLoop) ==
    /\ lastOp' = [kind |-> "peek", addr |-> addr,
                  data |-> IF r = 0 THEN val ELSE Zero32, rc |-> r]
    /\ opLog' = Logged(opLog, lastOp, "peek", addr, val, r)
    /\ opsUnattached' = IF attached THEN opsUnattached ELSE opsUnattached + 1
    /\ regOps' = regOps + 1
    /\ ioErr' = IF ioErr = 0 THEN r ELSE ioErr
    /\ opsAfterErr' = IF ioErr # 0 THEN opsAfterErr + 1 ELSE opsAfterErr
    /\ rc' = r
    /\ pollReads' = IF inLoop THEN pollReads + 1 ELSE pollReads
    /\ outReads' = IF addr >= OUTPUT_BASE_ADDR
                      /\ addr < OUTPUT_BASE_ADDR + 4 * NUM_REGISTERS
                   THEN outReads + 1 ELSE outReads
    /\ UNCHANGED <<startWrites, ctrlWrites>>

\* test_add_one_operation returns v; peek_poke_example stores it in rc
\* (line 136) and reaches cleanup on either branch of line 137.
TReturn(v, how) ==
    /\ cycle_ret' = Ret(v)
    /\ outcome' = how
    /\ ppe_rc' = v
    /\ pc' = "ppe_cleanup"

TStay == UNCHANGED <<cycle_ret, outcome, ppe_rc>>

\* ------------------------------------------------- test_add_one_operation
\* lines 166-171: test_data[i] = 0x10000000 + i
TestWordNoIndex(k) == W(4096, 0)
TestWord(k) == AddU32(W(4096, 0), k)

T_InitData ==
    /\ pc = "t_init"
    /\ test_data' = [s \in Slots |-> TestWord(s)]
    /\ pc' = "t_clear1"
    /\ TStay
    /\ UNCHANGED <<testFrame, opVars, rc, i, output_data, status, poll_count,
                   correct_count, report>>

\* uint32_t addr = INPUT_BASE_ADDR + (i * 4), lines 184 and 196
InputAddrUnscaled(k) == INPUT_BASE_ADDR + k
InputAddr(k) == INPUT_BASE_ADDR + (k * 4)

\* uint32_t addr = OUTPUT_BASE_ADDR + (i * 4), line 266
OutputAddrFromInputBase(k) == INPUT_BASE_ADDR + (k * 4)
OutputAddr(k) == OUTPUT_BASE_ADDR + (k * 4)

\* lines 173-179: clear the control register
T_Clear1 ==
    /\ pc = "t_clear1"
    /\ \E r \in Rcs :
        /\ Poke(CONTROL_REG_ADDR, Zero32, r)
        /\ IF IoFailed(r)
           THEN TReturn(r, "io_error")
           ELSE pc' = "t_write" /\ TStay
    /\ i' = 0
    /\ UNCHANGED <<testFrame, test_data, output_data, status, poll_count,
                   correct_count, report, rbGood, rbBad, timeoutPolls>>

\* lines 181-191: one iteration of the input write loop
T_Write ==
    /\ pc = "t_write"
    /\ \E r \in Rcs :
        /\ Poke(InputAddr(i), test_data[i], r)
        /\ IF IoFailed(r)
           THEN TReturn(r, "io_error") /\ i' = i
           ELSE /\ TStay
                /\ IF i + 1 < NUM_REGISTERS
                   THEN i' = i + 1 /\ pc' = "t_write"
                   ELSE i' = 0 /\ pc' = "t_readback"
    /\ UNCHANGED <<testFrame, test_data, output_data, status, poll_count,
                   correct_count, report, rbGood, rbBad, timeoutPolls>>

\* read_data != test_data[i] is false, line 203
ReadbackMatchesLow(read, written) == read.lo = written.lo
ReadbackMatches(read, written) == read = written

\* lines 193-209: one iteration of the readback loop
T_Readback ==
    /\ pc = "t_readback"
    /\ \E r \in Rcs, v \in ReadbackVals(test_data[i]) :
        /\ Peek(InputAddr(i), v, r, FALSE)
        /\ rbGood' = IF r = 0 /\ v = test_data[i] THEN rbGood \cup {i}
                      ELSE rbGood
        /\ rbBad' = IF r = 0 /\ v # test_data[i] THEN rbBad \cup {i}
                     ELSE rbBad
        /\ IF IoFailed(r)
           THEN TReturn(r, "io_error") /\ i' = i
           ELSE IF ~ReadbackMatches(v, test_data[i])
           THEN TReturn(1, "readback_mismatch") /\ i' = i
           ELSE /\ TStay
                /\ IF i + 1 < NUM_REGISTERS
                   THEN i' = i + 1 /\ pc' = "t_readback"
                   ELSE i' = 0 /\ pc' = "t_status0"
    /\ UNCHANGED <<testFrame, test_data, output_data, status, poll_count,
                   correct_count, report, timeoutPolls>>

\* lines 211-218: the initial status read
T_Status0 ==
    /\ pc = "t_status0"
    /\ \E r \in Rcs, v \in StatusVals :
        /\ Peek(STATUS_REG_ADDR, v, r, FALSE)
        /\ IF IoFailed(r)
           THEN TReturn(r, "io_error") /\ status' = status
           ELSE pc' = "t_start" /\ TStay /\ status' = v
    /\ UNCHANGED <<testFrame, i, test_data, output_data, poll_count,
                   correct_count, report, rbGood, rbBad, timeoutPolls>>

\* lines 220-232: write the start bit, then poll_count = 0, status = 0
T_Start ==
    /\ pc = "t_start"
    /\ \E r \in Rcs :
        /\ Poke(CONTROL_REG_ADDR, W(0, START_BIT), r)
        /\ IF IoFailed(r)
           THEN TReturn(r, "io_error") /\ UNCHANGED <<status, poll_count>>
           ELSE /\ pc' = "t_poll"
                /\ TStay
                /\ poll_count' = 0
                /\ status' = Zero32
    /\ UNCHANGED <<testFrame, i, test_data, output_data, correct_count,
                   report, rbGood, rbBad, timeoutPolls>>

\* the condition of the while loop, line 234
LoopCondInclusive(st, cnt) == ~DoneBitSet(st) /\ cnt <= max_polls
LoopCond(st, cnt) == ~DoneBitSet(st) /\ cnt < max_polls

\* lines 234-246: one iteration of the polling loop
T_Poll ==
    /\ pc = "t_poll"
    /\ LoopCond(status, poll_count)
    /\ \E r \in Rcs, v \in StatusVals :
        /\ Peek(STATUS_REG_ADDR, v, r, TRUE)
        /\ IF IoFailed(r)
           THEN TReturn(r, "io_error") /\ UNCHANGED <<status, poll_count>>
           ELSE /\ pc' = "t_poll"
                /\ TStay
                /\ status' = v
                /\ poll_count' = poll_count + 1
    /\ UNCHANGED <<testFrame, i, test_data, output_data, correct_count,
                   report, rbGood, rbBad, timeoutPolls>>

\* poll_count >= max_polls, line 248
TimedOutStrict(cnt) == cnt > max_polls
TimedOut(cnt) == cnt >= max_polls

\* lines 253-257: after the completion message comes step 8
AfterPollingSkipClear == "t_out"
AfterPolling == "t_clear2"

\* lines 234 and 248-253: the loop ends; timeout or completion
T_PollExit ==
    /\ pc = "t_poll"
    /\ ~LoopCond(status, poll_count)
    /\ IF TimedOut(poll_count)
       THEN /\ timeoutPolls' = poll_count
            /\ TReturn(1, "timeout")
       ELSE /\ timeoutPolls' = timeoutPolls
            /\ pc' = AfterPolling
            /\ TStay
    /\ UNCHANGED <<testFrame, cycleVars, lastOp, regOps, ioErr, startWrites,
                   ctrlWrites, pollReads, outReads, rbGood, rbBad,
                   opsAfterErr, opsUnattached, opLog>>

\* lines 255-261: clear the start bit
T_Clear2 ==
    /\ pc = "t_clear2"
    /\ \E r \in Rcs :
        /\ Poke(CONTROL_REG_ADDR, Zero32, r)
        /\ IF IoFailed(r)
           THEN TReturn(r, "io_error")
           ELSE pc' = "t_out" /\ TStay
    /\ i' = 0
    /\ UNCHANGED <<testFrame, test_data, output_data, status, poll_count,
                   correct_count, report, rbGood, rbBad, timeoutPolls>>

\* lines 263-273: one iteration of the output read loop
T_Out ==
    /\ pc = "t_out"
    /\ \E r \in Rcs, v \in OutputVals(test_data, output_data, i) :
        /\ Peek(OutputAddr(i), v, r, FALSE)
        /\ IF IoFailed(r)
           THEN TReturn(r, "io_error") /\ UNCHANGED <<i, output_data>>
           ELSE /\ TStay
                /\ output_data' = [output_data EXCEPT ![i] = v]
                /\ IF i + 1 < NUM_REGISTERS
                   THEN i' = i + 1 /\ pc' = "t_out"
                   ELSE i' = 0 /\ pc' = "t_verify"
    /\ UNCHANGED <<testFrame, test_data, status, poll_count, correct_count,
                   report, rbGood, rbBad, timeoutPolls>>

\* uint32_t expected = test_data[i] + 1, line 283
ExpectedNoCarry(w) == W(w.hi, (w.lo + 1) % Half)
Expected(w) == AddU32(w, 1)

\* is_correct, line 284
IsCorrect(out, inp) == out = Expected(inp)

\* the loop of lines 281-290 from slot k on, cnt being correct_count
RECURSIVE VerifyLoop(_, _, _, _)
VerifyLoop(inp, out, k, cnt) ==
    IF k < NUM_REGISTERS
    THEN VerifyLoop(inp, out, k + 1,
                    IF IsCorrect(out[k], inp[k]) THEN cnt + 1 ELSE cnt)
    ELSE cnt

\* lines 296-302
CycleResult(cnt) == IF cnt = NUM_REGISTERS THEN 0 ELSE 1

\* lines 275-302: step 10, the report and the final result
T_Verify ==
    /\ pc = "t_verify"
    /\ correct_count' = VerifyLoop(test_data, output_data, 0, 0)
    /\ report' = [s \in Slots |->
                    [expected |-> Expected(test_data[s]),
                     pass |-> IsCorrect(output_data[s], test_data[s])]]
    /\ TReturn(CycleResult(correct_count'),
               IF CycleResult(correct_count') = 0 THEN "verified"
               ELSE "output_mismatch")
    /\ UNCHANGED <<testFrame, opVars, rc, i, test_data, output_data, status,
                   poll_count>>

\* ------------------------------------------------------------ specification
Next ==
    \/ MgmtInit
    \/ CheckAfiReady
    \/ Attach
    \/ T_InitData
    \/ T_Clear1
    \/ T_Write
    \/ T_Readback
    \/ T_Status0
    \/ T_Start
    \/ T_Poll
    \/ T_PollExit
    \/ T_Clear2
    \/ T_Out
    \/ T_Verify
    \/ Detach

Spec == Init /\ [][Next]_vars

\* ------------------------------------------ step 10 on arbitrary operands
\* The verification of step 10 as a function of the two arrays: operand
\* vectors that carry an edge word in one slot, with any subset of the
\* outputs incremented by the device and the others left as the input.
EdgeWords == {W(65535, 65535), W(0, 65535), W(32767, 65535), W(65535, 0),
              W(0, 0), W(4096, 7)}
OperandVectors ==
    {[s \in Slots |-> IF s = k THEN w ELSE W(4096, s)] :
        k \in Slots, w \in EdgeWords}
OutputVectors(inp) ==
    {[s \in Slots |-> IF s \in good THEN DeviceSum(inp[s]) ELSE inp[s]] :
        good \in SUBSET Slots}

InitVerify ==
    /\ pc = "t_verify"
    /\ test_data \in OperandVectors
    /\ output_data \in OutputVectors(test_data)
    /\ main_rc = 0
    /\ info_status = "none"
    /\ ppe_rc = 0
    /\ pci_bar_handle = PCI_BAR_HANDLE_INIT
    /\ rc = 0
    /\ i = 0
    /\ status = Zero32
    /\ poll_count = 0
    /\ correct_count = 0
    /\ report = NoReport
    /\ exit_code = -1
    /\ init_ret = NoRet
    /\ afi_ret = NoRet
    /\ describe_ret = NoRet
    /\ attach_ret = NoRet
    /\ cycle_ret = NoRet
    /\ detach_ret = NoRet
    /\ ppe_ret = NoRet
    /\ outcome = "none"
    /\ describeCalls = 0
    /\ attachCalls = 0
    /\ detachCalls = 0
    /\ attached = FALSE
    /\ callOrder = <<>>
    /\ lastOp = NoOp
    /\ regOps = 0
    /\ ioErr = 0
    /\ startWrites = 0
    /\ ctrlWrites = 0
    /\ pollReads = 0
    /\ outReads = 0
    /\ rbGood = {}
    /\ rbBad = {}
    /\ opsAfterErr = 0
    /\ opsUnattached = 0
    /\ opLog = <<>>
    /\ timeoutPolls = -1

NextVerify == T_Verify

SpecVerify == InitVerify /\ [][NextVerify]_vars

\* ------------------------------------------------------------ properties
\* What the properties say about words is written on the two halves directly,
\* apart from the operators the actions use.

\* b = (a + 1) mod 2^32
IsSucc32(a, b) ==
    /\ b.lo \in 0 .. (Half - 1)
    /\ b.hi \in 0 .. (Half - 1)
    /\ (b.lo - a.lo - 1) % Half = 0
    /\ (b.hi - a.hi - (IF a.lo = Half - 1 THEN 1 ELSE 0)) % Half = 0

\* bit 0 of the last status word read by the polling loop is set
DoneObserved == pollReads >= 1 /\ pollReads <= max_polls /\ status.lo % 2 = 1

Exited == pc = "exited"
CycleReturned == cycle_ret # NoRet

\* readiness LOADED, attach succeeded, no register operation failed, done
\* seen within the budget, and all 8 outputs read and equal to input + 1
FullSuccess ==
    /\ init_ret = Ret(0)
    /\ describe_ret = Ret(0)
    /\ info_status = "LOADED"
    /\ attach_ret = Ret(0)
    /\ ioErr = 0
    /\ DoneObserved
    /\ outReads = NUM_REGISTERS
    /\ \A s \in Slots : IsSucc32(test_data[s], output_data[s])

\* C1: the process exit code is 0 if and only if readiness was LOADED,
\* attach succeeded, no register operation failed, the done bit was observed
\* within the poll budget and all 8 outputs equal input + 1.
C1_ExitZeroIffFullSuccess == Exited => (exit_code = 0 <=> FullSuccess)

\* C1, second half: in every other case the exit code is exactly 1.
C1_FailureExitsOne == (Exited /\ ~FullSuccess) => exit_code = 1

\* C2: what peek_poke_example returns to its caller is the outcome of the
\* command cycle, whatever fpga_pci_detach returned.
C2_DetachNeverOverrides ==
    (CycleReturned /\ ppe_ret # NoRet) => ppe_ret = cycle_ret

\* C3: fpga_pci_detach is called exactly once after the cycle returns,
\* whichever way the cycle ended, and never when attach failed.
C3_DetachExactlyOnce ==
    /\ detachCalls <= 1
    /\ attach_ret # Ret(0) => detachCalls = 0
    /\ detachCalls = 1 => CycleReturned /\ ~attached
    /\ (Exited /\ attach_ret = Ret(0)) => (detachCalls = 1 /\ attachCalls = 1)
    /\ (Exited /\ attach_ret # Ret(0)) => ~CycleReturned

\* C3 witness: the cycle died on a failed output read, and detach ran once.
C3_Witness ==
    /\ Exited
    /\ outcome = "io_error"
    /\ lastOp.kind = "peek"
    /\ lastOp.addr = OUTPUT_BASE_ADDR + 4 * 3
    /\ detachCalls = 1

\* C4: when a poll read within the budget shows the done bit, the cycle
\* goes on to clear Control and read the outputs; it reports no timeout.
C4_DoneWithinBudgetCompletes == DoneObserved => outcome # "timeout"

\* C5: with the done bit never shown and no read failing, the cycle issues
\* exactly max_polls status reads after the start write, then fails with a
\* timeout reporting max_polls attempts, with no further Control write and
\* no Output-zone read.
C5_TimeoutAfterMaxPolls ==
    /\ pollReads <= max_polls
    /\ (pollReads = max_polls /\ status.lo % 2 = 0 /\ ioErr = 0
        /\ pc # "t_poll") => outcome = "timeout"
    /\ (outcome = "timeout" /\ status.lo % 2 = 0) =>
          /\ pollReads = max_polls
          /\ timeoutPolls = max_polls
          /\ cycle_ret = Ret(1)
          /\ startWrites = 1
          /\ ctrlWrites = 2
          /\ outReads = 0
          /\ lastOp.kind = "peek" /\ lastOp.addr = STATUS_REG_ADDR

\* C5 witness: the run ended by a timeout with the done bit never seen.
C5_Witness ==
    /\ Exited
    /\ outcome = "timeout"
    /\ status.lo % 2 = 0
    /\ pollReads = max_polls
    /\ detachCalls = 1

\* C6: the start bit is written only after all 8 input slots were read back
\* equal to the words written; a readback that differs fails the cycle at
\* that slot and no start write is issued.
C6_StartOnlyAfterReadback ==
    /\ startWrites > 0 => (rbGood = Slots /\ rbBad = {})
    /\ rbBad # {} =>
          /\ startWrites = 0
          /\ Cardinality(rbBad) = 1
          /\ outcome = "readback_mismatch"
          /\ cycle_ret = Ret(1)
          /\ \A s \in rbBad :
                /\ rbGood = {t \in Slots : t < s}
                /\ lastOp.kind = "peek"
                /\ lastOp.addr = INPUT_BASE_ADDR + 4 * s

\* C6 witness: slot 5 read back wrong, the run ended without a start write.
C6_Witness ==
    /\ Exited
    /\ rbBad = {5}
    /\ startWrites = 0
    /\ detachCalls = 1

\* C7: once a register operation returned a nonzero code, no further peek
\* or poke is issued and the cycle returns that code.
C7_IoErrorAborts ==
    /\ opsAfterErr = 0
    /\ ioErr # 0 =>
          /\ cycle_ret = Ret(ioErr)
          /\ outcome = "io_error"
          /\ lastOp.rc = ioErr
    /\ (CycleReturned /\ ioErr = 0) => outcome # "io_error"

\* C7 witness: a poll read failed with a negative code, which the cycle
\* returned.
C7_Witness ==
    /\ Exited
    /\ ioErr = -1
    /\ lastOp.kind = "peek"
    /\ lastOp.addr = STATUS_REG_ADDR
    /\ pollReads = 2
    /\ cycle_ret = Ret(-1)

\* number of slots whose output is the input plus one modulo 2^32
MatchingSlots == Cardinality({s \in Slots : IsSucc32(test_data[s], output_data[s])})

\* C9: once the done bit was observed (and no register operation failed),
\* all 8 outputs are read and compared, correct_count is the number of
\* slots with output = input + 1, and the cycle returns 0 iff that is 8,
\* else 1.
C9_MismatchStillCompletes ==
    (CycleReturned /\ DoneObserved /\ ioErr = 0) =>
        /\ outReads = NUM_REGISTERS
        /\ correct_count = MatchingSlots
        /\ cycle_ret = Ret(IF correct_count = NUM_REGISTERS THEN 0 ELSE 1)

\* The same with the done bit seen before the last attempt of the budget.
C9_BeforeLastAttempt ==
    (CycleReturned /\ DoneObserved /\ pollReads < max_polls /\ ioErr = 0) =>
        /\ outReads = NUM_REGISTERS
        /\ correct_count = MatchingSlots
        /\ cycle_ret = Ret(IF correct_count = NUM_REGISTERS THEN 0 ELSE 1)

\* C10: readiness succeeds only for status LOADED; otherwise, or when the
\* describe query fails, check_afi_ready fails after exactly one describe
\* call and no attach, register operation or detach is performed.
C10_ReadinessOnceAndFatal ==
    /\ describeCalls <= 1
    /\ afi_ret # NoRet =>
          /\ describeCalls = 1
          /\ afi_ret = Ret(0) <=> (describe_ret = Ret(0) /\ info_status = "LOADED")
    /\ (afi_ret # NoRet /\ afi_ret # Ret(0)) =>
          /\ Exited
          /\ attachCalls = 0
          /\ regOps = 0
          /\ detachCalls = 0
    /\ attachCalls > 0 => afi_ret = Ret(0)

\* C10 witness: the image was BUSY; the run ended without an attach.
C10_Witness ==
    /\ Exited
    /\ info_status = "BUSY"
    /\ afi_ret = Ret(1)
    /\ describeCalls = 1
    /\ attachCalls = 0

\* the cycle ran step 10 and printed its report
Reported == outcome \in {"verified", "output_mismatch"}

\* C8: for every slot the expected value of the report is
\* (input + 1) mod 2^32, so 0xFFFFFFFF gives 0x00000000, and the slot is
\* marked PASS if and only if the output equals that value.
C8_ExpectedWraps ==
    Reported =>
        \A s \in Slots :
            /\ IsSucc32(test_data[s], report[s].expected)
            /\ report[s].pass <=> IsSucc32(test_data[s], output_data[s])

\* C8 witness: a slot holding 0xFFFFFFFF passed with expected 0x00000000,
\* and another slot failed.
C8_Witness ==
    /\ Reported
    /\ \E s \in Slots :
          /\ test_data[s] = W(65535, 65535)
          /\ output_data[s] = W(0, 0)
          /\ report[s].expected = W(0, 0)
          /\ report[s].pass
    /\ \E t \in Slots : ~report[t].pass

\* ------------------------------------------------ order of the operations
\* The kind and address of every entry of the log, in order.
LogShape == [k \in 1 .. Len(opLog) |-> <<opLog[k].kind, opLog[k].addr>>]

\* pokes, then peeks, of the 8 slots of a zone starting at base, ascending
ZoneOps(kind, base) == [k \in 1 .. 8 |-> <<kind, base + 4 * (k - 1)>>]

\* The operations of the state sequence Idle .. Verified: Control write,
\* input writes, input reads, Control write, Status reads, Control write,
\* output reads.
SequenceOfStates ==
    <<<<"poke", 64>>>> \o ZoneOps("poke", 0) \o ZoneOps("peek", 0)
    \o <<<<"poke", 64>>, <<"peek", 68>>, <<"poke", 64>>>>
    \o ZoneOps("peek", 32)

\* The same with one Status read between the input reads and the start.
SequenceWithInitialStatus ==
    <<<<"poke", 64>>>> \o ZoneOps("poke", 0) \o ZoneOps("peek", 0)
    \o <<<<"peek", 68>>, <<"poke", 64>>, <<"peek", 68>>, <<"poke", 64>>>>
    \o ZoneOps("peek", 32)

CycleSucceeded == cycle_ret = Ret(0)

\* Every operation succeeded and was issued once, but for the Status reads
\* of entry p, of which there are one or more, none after a done bit, the
\* last showing it.
IssuedOnceBut(p) ==
    /\ \A k \in 1 .. Len(opLog) :
          /\ opLog[k].rc = 0
          /\ ~opLog[k].afterDone
          /\ k # p => opLog[k].n = 1
    /\ p \in 1 .. Len(opLog)
    /\ opLog[p].n >= 1
    /\ opLog[p].n = pollReads
    /\ status.lo % 2 = 1

\* C11: a successful cycle issues exactly: write 0 to Control; write input
\* slots 0..7; read input slots 0..7; write the start bit to Control; one or
\* more Status reads ending at the first with the done bit; write 0 to
\* Control; read output slots 0..7; and nothing in between.
C11_ExactlyTheStateSequence ==
    CycleSucceeded =>
        /\ LogShape = SequenceOfStates
        /\ opLog[1].data = W(0, 0)
        /\ opLog[18].data = W(0, 1)
        /\ opLog[20].data = W(0, 0)
        /\ IssuedOnceBut(19)

\* C11 amended: the same sequence with one read of the Status register (the
\* initial status) between the last input read and the start write.
C11_SequenceWithInitialStatus ==
    CycleSucceeded =>
        /\ LogShape = SequenceWithInitialStatus
        /\ opLog[1].data = W(0, 0)
        /\ opLog[19].data = W(0, 1)
        /\ opLog[21].data = W(0, 0)
        /\ IssuedOnceBut(20)

\* C11 witness: a successful run whose third poll was the first to show
\* the done bit.
C11_Witness ==
    /\ Exited
    /\ CycleSucceeded
    /\ Len(opLog) = 29
    /\ opLog[20].n = 3
    /\ opLog[29] = [kind |-> "peek", addr |-> 60, data |-> Zero32, n |-> 1,
                    rc |-> 0, afterDone |-> FALSE]

\* position of the first call named f in callOrder, 0 when there is none
RECURSIVE FirstCall(_, _)
FirstCall(f, k) ==
    IF k > Len(callOrder) THEN 0
    ELSE IF callOrder[k] = f THEN k
    ELSE FirstCall(f, k + 1)

\* the run acquired its session, so the command cycle is run
CycleReached == attach_ret = Ret(0)

\* C12: in every run that reaches the command cycle, the session is
\* attached before the readiness query is made.
C12_AttachBeforeReadiness ==
    CycleReached =>
        /\ FirstCall("fpga_pci_attach", 1) > 0
        /\ FirstCall("fpga_mgmt_describe_local_image", 1) > 0
        /\ FirstCall("fpga_pci_attach", 1)
              < FirstCall("fpga_mgmt_describe_local_image", 1)

\* C12 amended: the readiness query comes first: readiness, then attach,
\* then the command cycle, then detach.
C12_ReadinessBeforeAttach ==
    /\ CycleReached =>
          /\ Len(callOrder) >= 3
          /\ SubSeq(callOrder, 1, 3) =
                <<"fpga_mgmt_init", "fpga_mgmt_describe_local_image",
                  "fpga_pci_attach">>
          /\ afi_ret = Ret(0)
          /\ regOps > 0 => Len(callOrder) = 3 \/ CycleReturned
    /\ (CycleReached /\ Exited) =>
          /\ callOrder =
                <<"fpga_mgmt_init", "fpga_mgmt_describe_local_image",
                  "fpga_pci_attach", "fpga_pci_detach">>
          /\ CycleReturned
    /\ ~CycleReached => regOps = 0

\* C12 witness: a run that went through all four stages.
C12_Witness ==
    /\ Exited
    /\ CycleSucceeded
    /\ callOrder = <<"fpga_mgmt_init", "fpga_mgmt_describe_local_image",
                     "fpga_pci_attach", "fpga_pci_detach">>

\* a write of val to Control that succeeded is entry k of the log
ControlWriteAt(k, val) ==
    /\ k \in 1 .. Len(opLog)
    /\ opLog[k].kind = "poke"
    /\ opLog[k].addr = 64
    /\ opLog[k].data = val
    /\ opLog[k].rc = 0

\* the start bit has been written
StartWritten == \E k \in 1 .. Len(opLog) : ControlWriteAt(k, W(0, 1))

\* a write of 0 to Control was issued after the start bit was written
ClearIssuedAfterStart ==
    \E k \in 1 .. Len(opLog) :
        /\ ControlWriteAt(k, W(0, 1))
        /\ \E j \in (k + 1) .. Len(opLog) :
              /\ opLog[j].kind = "poke"
              /\ opLog[j].addr = 64
              /\ opLog[j].data = W(0, 0)

\* the cycle ended on a status read of the polling loop that failed
PollReadFailed ==
    /\ ioErr # 0
    /\ lastOp.kind = "peek"
    /\ lastOp.addr = 68
    /\ pollReads > 0

\* C13: in every execution in which the start bit has been written, a write
\* of 0 to Control is issued before the session is detached, also when the
\* cycle ends in a timeout or in a failed status read.
C13_StartAlwaysCleared ==
    (StartWritten /\ detachCalls = 1) => ClearIssuedAfterStart

\* C13 amended: the write of 0 is issued when the polling loop ended with
\* neither a timeout nor a failed status read; after a timeout or a failed
\* status read no further write to Control is issued.
C13_StartClearedOnCompletion ==
    (StartWritten /\ CycleReturned) =>
        /\ (outcome # "timeout" /\ ~PollReadFailed) =>
              /\ ClearIssuedAfterStart
              /\ ctrlWrites = 3
              /\ detachCalls = 1 => opsUnattached = 0
        /\ (outcome = "timeout" \/ PollReadFailed) =>
              /\ ~ClearIssuedAfterStart
              /\ ctrlWrites = 2

\* C13 witness: the done bit came on the second poll, Control was cleared,
\* and the session was detached.
C13_Witness ==
    /\ Exited
    /\ detachCalls = 1
    /\ pollReads = 2
    /\ ControlWriteAt(19, W(0, 1))
    /\ ControlWriteAt(21, W(0, 0))
    /\ outcome = "output_mismatch"

\* C14: every peek and poke is issued after a successful attach and before
\* the detach; nothing is issued and no second detach is made after the
\* detach; at most one session is ever attached.
C14_HandleUsedOnlyWhileAttached ==
    /\ opsUnattached = 0
    /\ attachCalls <= 1
    /\ detachCalls <= 1
    /\ regOps > 0 => (attach_ret = Ret(0) /\ attachCalls = 1)
    /\ attached => (attach_ret = Ret(0) /\ detachCalls = 0)
    /\ detachCalls = 1 => (~attached /\ attach_ret = Ret(0) /\ Exited)
    /\ (Exited /\ regOps > 0) => detachCalls = 1

\* C14 witness: a whole cycle ran inside the session, which was then
\* released.
C14_Witness ==
    /\ Exited
    /\ regOps = 31
    /\ opsUnattached = 0
    /\ detachCalls = 1
    /\ ~attached

\* ------------------------------------------------------------ termination
\* The program is one thread that runs to the end of main: some step is
\* always taken while one is possible.
FairSpec == Spec /\ WF_vars(Next)

\* C15: whatever the register interface answers, test_add_one_operation
\* eventually returns, having issued at most max_polls status reads in the
\* polling loop; the session is then detached and the process exits.
C15_CycleTerminates ==
    /\ [](/\ pollReads <= max_polls
          /\ poll_count <= max_polls
          /\ (Exited /\ attach_ret = Ret(0)) =>
                (CycleReturned /\ detachCalls = 1))
    /\ <>Exited

\* C15 witness: the run ended after a timeout, the budget fully used.
C15_Witness ==
    /\ Exited
    /\ outcome = "timeout"
    /\ pollReads = max_polls
    /\ status = W(0, 2)
    /\ detachCalls = 1
    /\ detach_ret = Ret(5)

\* ------------------------------------------------------- the output reads
\* C16: no Output-zone slot is read unless a status read of the polling loop
\* showed the done bit within the attempt budget and the write of 0 to
\* Control that follows succeeded; the output reads are then issued for
\* slots 0..7 in ascending order.
C16_OutputsOnlyAfterCompletion ==
    /\ outReads = 0 =>
          \A k \in 1 .. Len(opLog) : opLog[k].addr \notin 32 .. 63
    /\ outReads > 0 =>
          /\ DoneObserved
          /\ outcome # "timeout"
          /\ outReads <= 8
          /\ Len(opLog) = 21 + outReads
          /\ opLog[20].kind = "peek"
          /\ opLog[20].addr = 68
          /\ opLog[20].rc = 0
          /\ opLog[20].n = pollReads
          /\ ~opLog[20].afterDone
          /\ ControlWriteAt(21, W(0, 0))
          /\ \A k \in 1 .. outReads :
                /\ opLog[21 + k].kind = "peek"
                /\ opLog[21 + k].addr = 32 + 4 * (k - 1)
                /\ opLog[21 + k].n = 1
                /\ k < outReads => opLog[21 + k].rc = 0

\* C16 witness: the done bit came on the fourth poll, Control was cleared,
\* and the read of output slot 5 failed after slots 0..4 were read.
C16_Witness ==
    /\ CycleReturned
    /\ outcome = "io_error"
    /\ pollReads = 4
    /\ outReads = 6
    /\ lastOp = [kind |-> "peek", addr |-> 52, data |-> Zero32, rc |-> -1]

\* ------------------------------------------------------------ one command
\* lastOp is the operation just issued and the last entry of the log: every
\* operation of a run is lastOp in the state that follows it.
InputWritten == lastOp.kind = "poke" /\ lastOp.addr \in 0 .. 31

\* C17: the start bit is written to Control at most once, the only values
\* written to Control are 0 and 1, each Input-zone slot is written at most
\* once, with 0x10000000 + i, and no Input-zone slot is written after the
\* start bit.
C17_OneCommandPerRun ==
    /\ startWrites <= 1
    /\ (lastOp.kind = "poke" /\ lastOp.addr = 64) =>
          lastOp.data \in {W(0, 0), W(0, 1)}
    /\ InputWritten =>
          /\ lastOp.addr % 4 = 0
          /\ lastOp.data = W(4096, lastOp.addr \div 4)
          /\ Len(opLog) = 2 + lastOp.addr \div 4
          /\ \A k \in 2 .. Len(opLog) - 1 :
                opLog[k].kind = "poke" /\ opLog[k].addr < lastOp.addr
          /\ startWrites = 0

\* C17 witness: a run that wrote the eight operands, started the command
\* once and wrote Control twice, ending in a timeout after the 1000th poll
\* showed the done bit.
C17_Witness ==
    /\ Exited
    /\ startWrites = 1
    /\ ctrlWrites = 2
    /\ outcome = "timeout"
    /\ status = W(0, 1)
    /\ \A s \in Slots :
          opLog[2 + s] = [kind |-> "poke", addr |-> 4 * s, data |-> W(4096, s),
                          n |-> 1, rc |-> 0, afterDone |-> FALSE]

\* ----------------------------------------------------------- register map
\* The four zones, as the addresses the program computes for them.
InputZone == {InputAddr(s) : s \in Slots}
OutputZone == {OutputAddr(s) : s \in Slots}
ControlZone == {CONTROL_REG_ADDR}
StatusZone == {STATUS_REG_ADDR}

\* the zones in which address a lies
ZonesOf(a) ==
    {z \in {InputZone, OutputZone, ControlZone, StatusZone} : a \in z}

\* The zones are Input 0x00..0x1C, Output 0x20..0x3C, Control 0x40 and
\* Status 0x44, and no two registers share a byte.
ZonesAsMapped ==
    /\ InputZone = {a \in 0 .. 28 : a % 4 = 0}
    /\ OutputZone = {a \in 32 .. 60 : a % 4 = 0}
    /\ ControlZone = {64}
    /\ StatusZone = {68}
    /\ Cardinality(InputZone \cup OutputZone \cup ControlZone \cup StatusZone)
          = 18
    /\ \A a, b \in InputZone \cup OutputZone \cup ControlZone \cup StatusZone :
          a < b => a + 4 <= b

\* C18: every address accessed is 4-byte aligned and lies in exactly one of
\* the four zones, the zones are pairwise disjoint, and only Input-zone
\* slots and Control are written.
C18_RegisterMap ==
    /\ ZonesAsMapped
    /\ lastOp.kind # "none" =>
          /\ lastOp.addr % 4 = 0
          /\ Cardinality(ZonesOf(lastOp.addr)) = 1
          /\ lastOp.kind = "poke" =>
                lastOp.addr \in InputZone \cup ControlZone
    /\ Len(opLog) > 0 =>
          /\ opLog[Len(opLog)].kind = lastOp.kind
          /\ opLog[Len(opLog)].addr = lastOp.addr

\* C18 witness: a verified run, which accessed all eighteen registers.
C18_Witness ==
    /\ Exited
    /\ outcome = "verified"
    /\ {opLog[k].addr : k \in 1 .. Len(opLog)} =
          InputZone \cup OutputZone \cup ControlZone \cup StatusZone
    /\ {opLog[k].addr : k \in {j \in 1 .. Len(opLog) : opLog[j].kind = "poke"}}
          = InputZone \cup ControlZone

====
